---- MODULE Spec2Model ----
(***************************************************************************)
(* ConfigManager of src/config.py: the layered resolution of the Firebase, *)
(* Exchange and Engine configuration groups from a JSON file and the       *)
(* process environment.                                                    *)
(*                                                                         *)
(* Representation.  An Optional[...] attribute is a set with at most one   *)
(* element ({} is None).  A dataclass instance is the record of its        *)
(* fields; engine_config is the instance __dict__ of the EngineConfig      *)
(* object, so that setattr on a name that is no field adds an entry.       *)
(* A JSON object is a record; the engine section is the sequence of its    *)
(* (key, value) pairs in file order, the order dict.items() yields them.   *)
(* Fractional numbers are written in thousandths (0.15 is 150).            *)
(***************************************************************************)
EXTENDS Integers, Sequences, FiniteSets, TLC

VARIABLES
    firebase_config,   \* self.firebase_config: {} or {FirebaseConfig}
    exchange_config,   \* self.exchange_config: {} or {ExchangeConfig}
    engine_config,     \* self.engine_config (its __dict__)
    _secrets_loaded,   \* self._secrets_loaded
    file,              \* what is at config_path at the latest call
    env,               \* os.environ at the latest call
    returned,          \* {} before any call, else {value returned by the latest call}
    exit,              \* the return statement the latest call left through
    again              \* the latest call saw the file and environment of the call before it

vars == <<firebase_config, exchange_config, engine_config, _secrets_loaded,
          file, env, returned, exit, again>>

-----------------------------------------------------------------------------
(* Dataclasses, src/config.py:23-69 *)

FirebaseRequired ==
    {"project_id", "private_key_id", "private_key", "client_email", "client_id"}

FirebaseDefaults ==
    [auth_uri |-> "https://accounts.google.com/o/oauth2/auth",
     token_uri |-> "https://oauth2.googleapis.com/token",
     auth_provider_x509_cert_url |-> "https://www.googleapis.com/oauth2/v1/certs",
     client_x509_cert_url |-> ""]

ExchangeRequired == {"name", "api_key", "api_secret"}

ExchangeDefaults == [paper_trading |-> TRUE, rate_limit |-> 1000]

\* EngineConfig(): every field has a default
EngineConfig ==
    [historical_data_days |-> 365,
     candle_timeframe |-> "1h",
     max_strategies |-> 100,
     generation_size |-> 20,
     mutation_rate |-> 150,
     max_position_size |-> 100,
     stop_loss_pct |-> 20,
     take_profit_pct |-> 50,
     initial_capital |-> 10000000,
     commission_rate |-> 1,
     min_sharpe_ratio |-> 500,
     min_win_rate |-> 450,
     max_drawdown |-> 250]

EngineFields == DOMAIN EngineConfig

\* The generated __init__ of a dataclass called with **kwargs: TypeError on
\* a missing required argument or an unexpected keyword.
InitRaises(required, defaults, kwargs) ==
    \/ ~(required \subseteq DOMAIN kwargs)
    \/ ~(DOMAIN kwargs \subseteq (required \cup DOMAIN defaults))

DataclassInit(required, defaults, kwargs) ==
    [f \in required \cup DOMAIN defaults |->
        IF f \in DOMAIN kwargs THEN kwargs[f] ELSE defaults[f]]

FirebaseConfig(kwargs) == DataclassInit(FirebaseRequired, FirebaseDefaults, kwargs)

ExchangeConfig(kwargs) == DataclassInit(ExchangeRequired, ExchangeDefaults, kwargs)

-----------------------------------------------------------------------------
(* ConfigManager._load_from_dict, src/config.py:113-130 *)

\* Names hasattr() finds on every EngineConfig instance although they are
\* no fields: attributes of the class and of object.
ClassAttributes == {"__class__", "__doc__"}

\* hasattr(self.engine_config, key)
HasAttr(obj, key) == key \in DOMAIN obj \/ key \in ClassAttributes

\* setattr(obj, key, value) raises TypeError for __class__: a value read
\* from JSON is never a class.
SetAttrRaises(key) == key = "__class__"

\* setattr(obj, key, value) otherwise stores the value in the instance
SetAttr(obj, key, value) ==
    [k \in DOMAIN obj \cup {key} |-> IF k = key THEN value ELSE obj[k]]

\* for key, value in engine_data.items(): if hasattr(...): setattr(...)
RECURSIVE MergeEngine(_, _)
MergeEngine(obj, items) ==
    IF items = <<>>
    THEN [obj |-> obj, raised |-> FALSE]
    ELSE LET key == Head(items)[1]
             value == Head(items)[2]
         IN  IF HasAttr(obj, key)
             THEN IF SetAttrRaises(key)
                  THEN [obj |-> obj, raised |-> TRUE]
                  ELSE MergeEngine(SetAttr(obj, key, value), Tail(items))
             ELSE MergeEngine(obj, Tail(items))

\* self is the record of the manager's attributes; the result is self as the
\* method leaves it and whether the method raised.
load_from_dict(self, config_data) ==
    LET hasFb == "firebase" \in DOMAIN config_data
        hasEx == "exchange" \in DOMAIN config_data
        hasEn == "engine" \in DOMAIN config_data
    IN
    IF hasFb /\ InitRaises(FirebaseRequired, FirebaseDefaults, config_data.firebase)
    THEN [self |-> self, raised |-> TRUE]
    ELSE
    LET s1 == IF hasFb
              THEN [self EXCEPT !.firebase_config = {FirebaseConfig(config_data.firebase)}]
              ELSE self
    IN
    IF hasEx /\ InitRaises(ExchangeRequired, ExchangeDefaults, config_data.exchange)
    THEN [self |-> s1, raised |-> TRUE]
    ELSE
    LET s2 == IF hasEx
              THEN [s1 EXCEPT !.exchange_config = {ExchangeConfig(config_data.exchange)}]
              ELSE s1
    IN
    IF hasEn
    THEN LET m == MergeEngine(s2.engine_config, config_data.engine)
         IN  [self |-> [s2 EXCEPT !.engine_config = m.obj], raised |-> m.raised]
    ELSE [self |-> s2, raised |-> FALSE]

-----------------------------------------------------------------------------
(* ConfigManager._load_from_env, src/config.py:132-163 *)

firebase_vars ==
    [project_id |-> "FIREBASE_PROJECT_ID",
     private_key_id |-> "FIREBASE_PRIVATE_KEY_ID",
     private_key |-> "FIREBASE_PRIVATE_KEY",
     client_email |-> "FIREBASE_CLIENT_EMAIL",
     client_id |-> "FIREBASE_CLIENT_ID"]

\* os.getenv(name, default); environ is the mapping of the variables set
Getenv(environ, name, default) ==
    IF name \in DOMAIN environ THEN environ[name] ELSE default

\* "if value:" on os.getenv(name): set and not the empty string
Truthy(environ, name) == name \in DOMAIN environ /\ environ[name] # ""

\* the dict firebase_data after the loop of lines 143-147
firebase_data(environ) ==
    [attr \in {a \in DOMAIN firebase_vars : Truthy(environ, firebase_vars[a])} |->
        environ[firebase_vars[attr]]]

\* line 149: if firebase_data and len(firebase_data) == len(firebase_vars)
FirebaseFromEnv(environ) ==
    /\ DOMAIN firebase_data(environ) # {}
    /\ Cardinality(DOMAIN firebase_data(environ)) = Cardinality(DOMAIN firebase_vars)

\* line 158: if api_key and api_secret
ExchangeFromEnv(environ) ==
    Truthy(environ, "EXCHANGE_API_KEY") /\ Truthy(environ, "EXCHANGE_API_SECRET")

\* the fallback venue left out
exchange_name_NoDefault(environ) == Getenv(environ, "EXCHANGE_NAME", "")

\* line 154: os.getenv('EXCHANGE_NAME', 'binance')
exchange_name(environ) == Getenv(environ, "EXCHANGE_NAME", "binance")

\* str.lower() on the values the paper-trading variable takes here
Lower(s) == IF s \in {"True", "TRUE", "true"} THEN "true"
            ELSE IF s \in {"False", "FALSE", "false"} THEN "false"
            ELSE s

\* The source text ends inside line 163, at os.getenv('P.  The rest of the
\* call follows the specification: a boolean-like string, true by default.
paper_trading(environ) == Lower(Getenv(environ, "PAPER_TRADING", "true")) = "true"

\* The rate limit is read from the environment with default 1000; the
\* variable takes decimal numerals here.
ParseInt(s) == IF s = "500" THEN 500 ELSE 1000

rate_limit(environ) == ParseInt(Getenv(environ, "EXCHANGE_RATE_LIMIT", "1000"))

ExchangeOverlay(self, environ) ==
    IF ExchangeFromEnv(environ)
    THEN [self EXCEPT !.exchange_config =
             {[name |-> exchange_name(environ),
               api_key |-> environ["EXCHANGE_API_KEY"],
               api_secret |-> environ["EXCHANGE_API_SECRET"],
               paper_trading |-> paper_trading(environ),
               rate_limit |-> rate_limit(environ)]}]
    ELSE self

\* the environment fills the Firebase group only when the file gave none
load_from_env_FileWins(self, environ) ==
    ExchangeOverlay(IF FirebaseFromEnv(environ) /\ self.firebase_config = {}
                    THEN [self EXCEPT !.firebase_config =
                             {FirebaseConfig(firebase_data(environ))}]
                    ELSE self,
                    environ)

\* an incomplete set of variables drops the Firebase group
load_from_env_PartialClears(self, environ) ==
    ExchangeOverlay(IF FirebaseFromEnv(environ)
                    THEN [self EXCEPT !.firebase_config =
                             {FirebaseConfig(firebase_data(environ))}]
                    ELSE IF DOMAIN firebase_data(environ) # {}
                         THEN [self EXCEPT !.firebase_config = {}]
                         ELSE self,
                    environ)

load_from_env(self, environ) ==
    ExchangeOverlay(IF FirebaseFromEnv(environ)
                    THEN [self EXCEPT !.firebase_config =
                             {FirebaseConfig(firebase_data(environ))}]
                    ELSE self,
                    environ)

-----------------------------------------------------------------------------
(* ConfigManager._validate_config: called at src/config.py:95, its body is   *)
(* past the end of the source text.  Modelled from the validation policy of  *)
(* the specification.                                                        *)

UnitFields ==
    {"mutation_rate", "max_position_size", "stop_loss_pct", "take_profit_pct",
     "commission_rate", "min_win_rate", "max_drawdown"}

CountFields == {"historical_data_days", "max_strategies", "generation_size"}

validate_config(self) ==
    /\ \A f \in UnitFields : self.engine_config[f] >= 0 /\ self.engine_config[f] <= 1000
    /\ \A f \in CountFields : self.engine_config[f] > 0
    /\ \A x \in self.exchange_config : x.api_key # "" /\ x.api_secret # ""
    /\ \A fb \in self.firebase_config : \A f \in FirebaseRequired : fb[f] # ""

-----------------------------------------------------------------------------
(* ConfigManager.load_configuration, src/config.py:81-111 *)

\* What is at config_path:
\*   absent      os.path.exists is false
\*   vanished    the file is removed between os.path.exists and open
\*   unreadable  open raises another OSError (a directory, no permission)
\*   malformed   json.load raises JSONDecodeError
\*   object      json.load returns the dict file.data
Return(self, value, where) == [self |-> self, value |-> value, exit |-> where]

\* a parse error taken for an empty file
ReadRaises_MalformedIgnored(f) ==
    IF f.kind = "vanished" THEN "FileNotFoundError"
    ELSE IF f.kind = "unreadable" THEN "Exception"
    ELSE ""

\* lines 86-87, open and json.load: the handler their exception is caught
\* by, "" when they raise nothing
ReadRaises(f) ==
    IF f.kind = "vanished" THEN "FileNotFoundError"
    ELSE IF f.kind = "unreadable" THEN "Exception"
    ELSE IF f.kind = "malformed" THEN "JSONDecodeError"
    ELSE ""

\* the file opened without the os.path.exists guard
FileStep_MissingFileRaises(self, f) ==
    IF f.kind = "object"
    THEN load_from_dict(self, f.data)
    ELSE [self |-> self, raised |-> TRUE]

\* lines 85-89: the file is applied if it exists
FileStep(self, f) ==
    IF f.kind = "object"
    THEN load_from_dict(self, f.data)
    ELSE [self |-> self, raised |-> FALSE]

\* validation of the manager as it was before the file and the environment
\* were applied
load_configuration_ValidatesFirst(self, f, environ) ==
    IF ReadRaises(f) # "" THEN Return(self, FALSE, ReadRaises(f))
    ELSE
    LET d == FileStep(self, f)
    IN
    IF d.raised THEN Return(d.self, FALSE, "Exception")
    ELSE
    LET e == load_from_env(d.self, environ)
    IN  IF ~validate_config(self)
        THEN Return(e, FALSE, "invalid")
        ELSE Return([e EXCEPT !._secrets_loaded = TRUE], TRUE, "ok")

\* a failed validation restores the manager as it was before the call
load_configuration_RollsBack(self, f, environ) ==
    IF ReadRaises(f) # "" THEN Return(self, FALSE, ReadRaises(f))
    ELSE
    LET d == FileStep(self, f)
    IN
    IF d.raised THEN Return(d.self, FALSE, "Exception")
    ELSE
    LET e == load_from_env(d.self, environ)
    IN  IF ~validate_config(e)
        THEN Return(self, FALSE, "invalid")
        ELSE Return([e EXCEPT !._secrets_loaded = TRUE], TRUE, "ok")

load_configuration(self, f, environ) ==
    IF ReadRaises(f) # "" THEN Return(self, FALSE, ReadRaises(f))
    ELSE
    LET d == FileStep(self, f)
    IN
    IF d.raised THEN Return(d.self, FALSE, "Exception")
    ELSE
    LET e == load_from_env(d.self, environ)
    IN  IF ~validate_config(e)
        THEN Return(e, FALSE, "invalid")
        ELSE Return([e EXCEPT !._secrets_loaded = TRUE], TRUE, "ok")

-----------------------------------------------------------------------------
(* ConfigManager.__init__, src/config.py:74-79 *)

NewManager ==
    [firebase_config |-> {},
     exchange_config |-> {},
     engine_config |-> EngineConfig,
     _secrets_loaded |-> FALSE]

Init ==
    /\ firebase_config = NewManager.firebase_config
    /\ exchange_config = NewManager.exchange_config
    /\ engine_config = NewManager.engine_config
    /\ _secrets_loaded = NewManager._secrets_loaded
    /\ file = [kind |-> "absent"]
    /\ env = <<>>
    /\ returned = {}
    /\ exit = "none"
    /\ again = FALSE

-----------------------------------------------------------------------------
(* The files and environments the calls are made with *)

Restrict(f, S) == [x \in S |-> f[x]]

Extend(f, key, value) == [x \in DOMAIN f \cup {key} |-> IF x = key THEN value ELSE f[x]]

FileFirebase ==
    [project_id |-> "file-project",
     private_key_id |-> "file-key-id",
     private_key |-> "file-key",
     client_email |-> "file@example.com",
     client_id |-> "file-client"]

\* firebase sections: complete, one required field empty, one required
\* field missing, one unexpected field
FirebaseSections ==
    {FileFirebase,
     [FileFirebase EXCEPT !.project_id = ""],
     Restrict(FileFirebase, FirebaseRequired \ {"client_id"}),
     Extend(FileFirebase, "database_url", "file-db")}

FileExchange ==
    [name |-> "kraken", api_key |-> "file-api-key", api_secret |-> "file-api-secret",
     paper_trading |-> FALSE]

\* exchange sections: complete, empty secret, missing secret
ExchangeSections ==
    {FileExchange,
     [FileExchange EXCEPT !.api_secret = ""],
     Restrict(FileExchange, {"name", "api_key"})}

\* the (key, value) pairs an engine section is made of: a field, a field
\* with a value out of range, a key that is no attribute, and a name that
\* is an attribute but no field
EngineItems ==
    {<<"mutation_rate", 300>>, <<"max_strategies", 0>>, <<"population", 7>>,
     <<"__class__", 1>>}

MaxEngineKeys == 2

RECURSIVE SeqsOver(_, _)
SeqsOver(items, n) ==
    IF n = 0 THEN {<<>>}
    ELSE LET shorter == SeqsOver(items, n - 1)
         IN  shorter \cup
             {Append(q, i) : q \in {r \in shorter : Len(r) = n - 1}, i \in items}

Keys(q) == {q[i][1] : i \in DOMAIN q}

\* engine sections: up to MaxEngineKeys pairs with distinct keys
EngineSections ==
    {q \in SeqsOver(EngineItems, MaxEngineKeys) : Cardinality(Keys(q)) = Len(q)}

Merge(f, g) == [x \in DOMAIN f \cup DOMAIN g |-> IF x \in DOMAIN f THEN f[x] ELSE g[x]]

Object(d) == [kind |-> "object", data |-> d]

\* files that open and parse, and whose firebase section, if any, constructs
SoundFiles ==
    {[kind |-> "absent"], Object(<<>>), Object([firebase |-> FileFirebase]),
     Object([firebase |-> [FileFirebase EXCEPT !.project_id = ""]])}

\* files load_configuration gives up on: in open, in json.load, in the
\* firebase section, and in the exchange section after a firebase section
FailingFiles ==
    {[kind |-> k] : k \in {"vanished", "unreadable", "malformed"}}
    \cup {Object([firebase |-> s]) : s \in FirebaseSections \ {f \in FirebaseSections :
                                         DOMAIN f = FirebaseRequired}}
    \cup {Object([firebase |-> FileFirebase,
                  exchange |-> Restrict(FileExchange, {"name", "api_key"})])}

ExchangeFiles ==
    {[kind |-> "absent"], Object(<<>>)} \cup {Object([exchange |-> s]) : s \in ExchangeSections}

EngineFiles ==
    {Object([engine |-> q]) : q \in EngineSections}
    \cup {Object([firebase |-> FileFirebase, exchange |-> FileExchange, engine |-> q]) :
             q \in {r \in EngineSections : Len(r) = 1}}

\* a complete set of the five Firebase variables
EnvFirebase ==
    [FIREBASE_PROJECT_ID |-> "env-project",
     FIREBASE_PRIVATE_KEY_ID |-> "env-key-id",
     FIREBASE_PRIVATE_KEY |-> "env-key",
     FIREBASE_CLIENT_EMAIL |-> "env@example.com",
     FIREBASE_CLIENT_ID |-> "env-client"]

\* EnvFirebase with the variables of U unset, or set to the empty string
Without(U, how) ==
    [v \in DOMAIN EnvFirebase \ (IF how = "unset" THEN U ELSE {}) |->
        IF v \in U THEN "" ELSE EnvFirebase[v]]

\* partial sets: the first or the last variable unset, one variable empty,
\* a single variable set
PartialEnvs ==
    {Without({"FIREBASE_PROJECT_ID"}, "unset"),
     Without({"FIREBASE_CLIENT_ID"}, "unset"),
     Without({"FIREBASE_PRIVATE_KEY"}, "empty"),
     Restrict(EnvFirebase, {"FIREBASE_CLIENT_EMAIL"})}

FirebaseEnvs == {EnvFirebase} \cup PartialEnvs

EnvExchange == [EXCHANGE_API_KEY |-> "abc", EXCHANGE_API_SECRET |-> "xyz"]

\* key and secret alone; with name, paper-trading flag and rate limit; the
\* key without a secret; the secret empty
ExchangeEnvs ==
    {EnvExchange,
     Merge(EnvExchange,
           [EXCHANGE_NAME |-> "coinbase", PAPER_TRADING |-> "False",
            EXCHANGE_RATE_LIMIT |-> "500"]),
     Restrict(EnvExchange, {"EXCHANGE_API_KEY"}),
     [EnvExchange EXCEPT !.EXCHANGE_API_SECRET = ""]}

\* the (file, environment) pairs of the calls
Inputs ==
    (SoundFiles \X ({<<>>} \cup FirebaseEnvs))
    \cup (FailingFiles \X {<<>>, EnvFirebase})
    \cup (ExchangeFiles \X {<<>>})
    \cup ({[kind |-> "absent"], Object([exchange |-> FileExchange])} \X ExchangeEnvs)
    \cup (EngineFiles \X {<<>>})
    \cup {<<[kind |-> "absent"], Merge(EnvFirebase, EnvExchange)>>}

-----------------------------------------------------------------------------
(* One call of load_configuration on the manager *)

Self ==
    [firebase_config |-> firebase_config,
     exchange_config |-> exchange_config,
     engine_config |-> engine_config,
     _secrets_loaded |-> _secrets_loaded]

LoadConfiguration ==
    \E in \in Inputs :
        \E r \in {load_configuration(Self, in[1], in[2])} :
            /\ file' = in[1]
            /\ env' = in[2]
            /\ firebase_config' = r.self.firebase_config
            /\ exchange_config' = r.self.exchange_config
            /\ engine_config' = r.self.engine_config
            /\ _secrets_loaded' = r.self._secrets_loaded
            /\ returned' = {r.value}
            /\ exit' = r.exit
            /\ again' = (returned # {} /\ in[1] = file /\ in[2] = env)

Next == LoadConfiguration

Spec == Init /\ [][Next]_vars

TypeOK ==
    /\ Cardinality(firebase_config) <= 1
    /\ Cardinality(exchange_config) <= 1
    /\ EngineFields \subseteq DOMAIN engine_config
    /\ _secrets_loaded \in BOOLEAN
    /\ returned \in {{}, {TRUE}, {FALSE}}
    /\ exit \in {"none", "ok", "invalid", "FileNotFoundError", "JSONDecodeError", "Exception"}
    /\ again \in BOOLEAN

-----------------------------------------------------------------------------
(* Vocabulary of the properties *)

\* all five Firebase variables are set and non-empty in environ
AllFiveSet(environ) ==
    \A v \in DOMAIN EnvFirebase : v \in DOMAIN environ /\ environ[v] # ""

\* at least one but not all of them is set and non-empty
SomeNotAllSet(environ) ==
    /\ \E v \in DOMAIN EnvFirebase : v \in DOMAIN environ /\ environ[v] # ""
    /\ ~AllFiveSet(environ)

\* the group exists and its five required fields are the environment's values
FirebaseIsEnv(group, environ) ==
    \E fb \in group :
        /\ fb.project_id = environ.FIREBASE_PROJECT_ID
        /\ fb.private_key_id = environ.FIREBASE_PRIVATE_KEY_ID
        /\ fb.private_key = environ.FIREBASE_PRIVATE_KEY
        /\ fb.client_email = environ.FIREBASE_CLIENT_EMAIL
        /\ fb.client_id = environ.FIREBASE_CLIENT_ID

HasSection(f, key) == f.kind = "object" /\ key \in DOMAIN f.data

\* a section whose keys are what the dataclass accepts
Constructs(f, key, required, optional) ==
    /\ HasSection(f, key)
    /\ required \subseteq DOMAIN f.data[key]
    /\ DOMAIN f.data[key] \subseteq required \cup optional

ConstructsFirebase(f) ==
    Constructs(f, "firebase", FirebaseRequired, DOMAIN FirebaseDefaults)

ConstructsExchange(f) ==
    Constructs(f, "exchange", ExchangeRequired, DOMAIN ExchangeDefaults)

\* the group exists and has the values of the section of the file
GroupIsSection(group, f, key) ==
    \E g \in group : \A k \in DOMAIN f.data[key] : g[k] = f.data[key][k]

\* open, json.load and _load_from_dict raise nothing on f: there is no file,
\* or it is a JSON object whose firebase and exchange sections have the
\* fields their dataclass accepts and whose engine section has no key that
\* setattr rejects
FileStepCompletes(f) ==
    \/ f.kind = "absent"
    \/ /\ f.kind = "object"
       /\ HasSection(f, "firebase") => ConstructsFirebase(f)
       /\ HasSection(f, "exchange") => ConstructsExchange(f)
       /\ HasSection(f, "engine") => "__class__" \notin {f.data.engine[i][1] : i \in DOMAIN f.data.engine}

Groups == <<firebase_config, exchange_config, engine_config>>

-----------------------------------------------------------------------------
\* C1 as stated: whenever all five Firebase variables are set and non-empty,
\* whatever the file is (absent, valid, malformed, with wrong fields), after
\* load_configuration the Firebase group exists and its five required fields
\* equal the environment values.
C1_EnvWinsWhateverTheFile ==
    (returned # {} /\ AllFiveSet(env)) => FirebaseIsEnv(firebase_config, env)

\* C1 amended: the same, for the files on which open, json.load and
\* _load_from_dict do not raise, so that the environment overlay runs.
C1_EnvWinsWhenFileStepCompletes ==
    (returned # {} /\ FileStepCompletes(file) /\ AllFiveSet(env))
        => FirebaseIsEnv(firebase_config, env)

\* the environment's values replaced those of a complete firebase section
C1_Witness ==
    /\ AllFiveSet(env)
    /\ ConstructsFirebase(file)
    /\ file.data.firebase.project_id # env.FIREBASE_PROJECT_ID
    /\ exit = "ok"
    /\ FirebaseIsEnv(firebase_config, env)

\* C2: with some but not all of the five variables set and non-empty, the
\* call leaves the Firebase group as the file step left it: the group of the
\* file's firebase section when that section was applied in this call, the
\* group the manager had otherwise (absent stays absent); and the partial
\* set raises no error: when the file step completes the call returns from
\* validation.
C2_PartialEnvNeverActivates ==
    [][SomeNotAllSet(env') =>
        /\ IF ConstructsFirebase(file')
           THEN GroupIsSection(firebase_config', file', "firebase")
           ELSE firebase_config' = firebase_config
        /\ FileStepCompletes(file') => exit' \in {"ok", "invalid"}]_vars

\* four of five variables set, a complete firebase section in the file: the
\* file's group is in effect after a successful call
C2_Witness ==
    /\ SomeNotAllSet(env)
    /\ Cardinality({v \in DOMAIN EnvFirebase : v \in DOMAIN env /\ env[v] # ""}) = 4
    /\ ConstructsFirebase(file)
    /\ GroupIsSection(firebase_config, file, "firebase")
    /\ exit = "ok"

C4_ExchangeFromEnvDefaults ==
    ( /\ returned # {}
      /\ file.kind = "absent"
      /\ "EXCHANGE_API_KEY" \in DOMAIN env /\ env.EXCHANGE_API_KEY # ""
      /\ "EXCHANGE_API_SECRET" \in DOMAIN env /\ env.EXCHANGE_API_SECRET # ""
      /\ "EXCHANGE_NAME" \notin DOMAIN env
      /\ "PAPER_TRADING" \notin DOMAIN env )
    => \E x \in exchange_config :
          /\ x.name = "binance"
          /\ x.api_key = env.EXCHANGE_API_KEY
          /\ x.api_secret = env.EXCHANGE_API_SECRET
          /\ x.paper_trading = TRUE

\* the scenario of the specification: abc, xyz
C4_Witness ==
    /\ file.kind = "absent"
    /\ env = [EXCHANGE_API_KEY |-> "abc", EXCHANGE_API_SECRET |-> "xyz"]
    /\ \E x \in exchange_config : x.name = "binance" /\ x.api_key = "abc"
    /\ returned = {TRUE}

\* C5: a call that finds a malformed file returns false through the
\* JSONDecodeError handler (nothing escapes) and leaves engine_config as it
\* was; on a newly constructed manager every field keeps its default.
C5_MalformedFileFailsSoft ==
    [][file'.kind = "malformed" =>
        /\ returned' = {FALSE}
        /\ exit' = "JSONDecodeError"
        /\ engine_config' = engine_config
        /\ returned = {} => engine_config' = EngineConfig]_vars

\* the first call of a manager found a malformed file
C5_Witness ==
    /\ file.kind = "malformed"
    /\ returned = {FALSE}
    /\ exit = "JSONDecodeError"
    /\ engine_config = EngineConfig
    /\ firebase_config = {} /\ exchange_config = {} /\ ~_secrets_loaded

\* C6: the groups the latest call left are those a newly constructed
\* manager has after one call with the same file and environment: nothing
\* of an earlier call is carried over.
C6_GroupsFromLatestCallAlone ==
    returned # {} =>
        LET fresh == load_configuration(NewManager, file, env).self
        IN  Groups = <<fresh.firebase_config, fresh.exchange_config, fresh.engine_config>>

\* C7: the Firebase group is absent or has its five required fields
\* non-empty.
C7_FirebaseAbsentOrComplete ==
    \A fb \in firebase_config : \A f \in FirebaseRequired : fb[f] # ""

\* C8: a call made with the file and the environment of the call before it
\* returns what that call returned and leaves the three groups as they were.
C8_ReloadIsIdempotent ==
    [][(returned # {} /\ file' = file /\ env' = env) =>
        returned' = returned /\ Groups' = Groups]_vars

\* a successful call was repeated on a manager holding groups from the file
C8_Witness ==
    /\ again
    /\ returned = {TRUE}
    /\ ConstructsFirebase(file)
    /\ GroupIsSection(firebase_config, file, "firebase")
    /\ HasSection(file, "engine")
    /\ engine_config.mutation_rate = 300

\* the value the engine section q gives key k
ValueOf(q, k) == q[CHOOSE i \in DOMAIN q : q[i][1] = k][2]

\* C9: a call that finds a valid file with an engine section raises no
\* error, and afterwards every EngineConfig field named in the section has
\* the section's value, every other field its default, and nothing else is
\* stored in the object.
C9_EngineSectionAppliesFieldsOnly ==
    [][( /\ HasSection(file', "engine")
         /\ HasSection(file', "firebase") => ConstructsFirebase(file')
         /\ HasSection(file', "exchange") => ConstructsExchange(file') )
       => /\ exit' \in {"ok", "invalid"}
          /\ engine_config' =
                [f \in EngineFields |->
                    IF f \in Keys(file'.data.engine)
                    THEN ValueOf(file'.data.engine, f)
                    ELSE EngineConfig[f]]]_vars

\* both Exchange credentials are set and non-empty in environ
BothExchangeSet(environ) ==
    /\ "EXCHANGE_API_KEY" \in DOMAIN environ /\ environ.EXCHANGE_API_KEY # ""
    /\ "EXCHANGE_API_SECRET" \in DOMAIN environ /\ environ.EXCHANGE_API_SECRET # ""

\* C10: _secrets_loaded is false after construction; a call sets it when it
\* returns true and leaves it as it was when it returns false; and a call
\* that fails validation leaves in place what it applied: the fields of the
\* engine section, and the firebase and exchange sections unless the
\* environment replaced them.
C10_LoadedIffSomeCallSucceeded ==
    /\ ~_secrets_loaded
    /\ [][/\ _secrets_loaded' = (_secrets_loaded \/ returned' = {TRUE})
          /\ exit' = "invalid" =>
               /\ returned' = {FALSE}
               /\ HasSection(file', "engine") =>
                     \A k \in Keys(file'.data.engine) \cap EngineFields :
                         engine_config'[k] = ValueOf(file'.data.engine, k)
               /\ (ConstructsFirebase(file') /\ ~AllFiveSet(env')) =>
                     GroupIsSection(firebase_config', file', "firebase")
               /\ (ConstructsExchange(file') /\ ~BothExchangeSet(env')) =>
                     GroupIsSection(exchange_config', file', "exchange")]_vars

\* a manager loaded by an earlier call, whose latest call failed validation
\* on the engine section it applied
C10_Witness ==
    /\ _secrets_loaded
    /\ exit = "invalid"
    /\ returned = {FALSE}
    /\ HasSection(file, "engine")
    /\ "max_strategies" \in Keys(file.data.engine)
    /\ engine_config.max_strategies = 0

====
